---- MODULE Spec2Model ----
(***************************************************************************)
(* Model of the file-backed tally counter (src/src/main.rs).               *)
(*                                                                         *)
(* The counter is an i64.  TLC's integers are 32 bits wide, so an i64 is   *)
(* held in sign-magnitude form with the magnitude split into three limbs   *)
(* of nine decimal digits: magnitude = h * 10^18 + m * 10^9 + l.           *)
(* Zero is never negative.  A file is a sequence of byte tokens.           *)
(***************************************************************************)
EXTENDS Integers, Sequences, FiniteSets, TLC

\* ------------------------------------------------------------------ bounds

\* Largest number of terminal events one behaviour reads.
MaxKeys == 3

\* Largest number of times the program is started again after a kill.
MaxRestarts == 1

\* ------------------------------------------------------------- i64 values

Limb == 10^9

None == [none |-> TRUE]

Val(neg, h, m, l) == [neg |-> neg, h |-> h, m |-> m, l |-> l]

\* i64::MAX = 9223372036854775807
I64_MAX == Val(FALSE, 9, 223372036, 854775807)

\* i64::MIN = -9223372036854775808
I64_MIN == Val(TRUE, 9, 223372036, 854775808)

Zero == Val(FALSE, 0, 0, 0)

\* the i64 with the value n, for an n that fits one machine word of the checker
Small(n) ==
    LET mag == IF n < 0 THEN 0 - n ELSE n
    IN Val(n < 0, 0, mag \div Limb, mag % Limb)

\* magnitude + 1, with carry through the limbs
MagInc(v) ==
    IF v.l + 1 < Limb THEN [v EXCEPT !.l = v.l + 1]
    ELSE IF v.m + 1 < Limb THEN [v EXCEPT !.l = 0, !.m = v.m + 1]
    ELSE [v EXCEPT !.l = 0, !.m = 0, !.h = v.h + 1]

\* magnitude - 1 (magnitude > 0), with borrow through the limbs
MagDec(v) ==
    IF v.l > 0 THEN [v EXCEPT !.l = v.l - 1]
    ELSE IF v.m > 0 THEN [v EXCEPT !.l = Limb - 1, !.m = v.m - 1]
    ELSE [v EXCEPT !.l = Limb - 1, !.m = Limb - 1, !.h = v.h - 1]

IsZeroMag(v) == v.h = 0 /\ v.m = 0 /\ v.l = 0

Norm(v) == IF IsZeroMag(v) THEN [v EXCEPT !.neg = FALSE] ELSE v

\* mutant of checked_add: wrapping_add, i64::MAX + 1 wraps to i64::MIN
checked_add_wrapping(v) ==
    IF v = I64_MAX THEN I64_MIN
    ELSE IF v.neg THEN Norm(MagDec(v))
    ELSE MagInc(v)

\* i64::checked_add(self, 1): None on overflow
checked_add(v) ==
    IF v = I64_MAX THEN None
    ELSE IF v.neg THEN Norm(MagDec(v))
    ELSE MagInc(v)

\* mutant of checked_sub: the counter is clamped at 0
checked_sub_clamped(v) ==
    IF v = I64_MIN THEN None
    ELSE IF v.neg THEN MagInc(v)
    ELSE IF IsZeroMag(v) THEN v
    ELSE MagDec(v)

\* i64::checked_sub(self, 1): None on underflow
checked_sub(v) ==
    IF v = I64_MIN THEN None
    ELSE IF v.neg THEN MagInc(v)
    ELSE IF IsZeroMag(v) THEN Val(TRUE, 0, 0, 1)
    ELSE MagDec(v)

\* ------------------------------------------------------- decimal rendering

DigitChar == <<"0", "1", "2", "3", "4", "5", "6", "7", "8", "9">>

Digits == {DigitChar[i] : i \in 1..10}

DigitVal(c) == (CHOOSE i \in 1..10 : DigitChar[i] = c) - 1

\* decimal digits of n >= 0 without leading zeros ("0" for 0)
RECURSIVE DecDigits(_)
DecDigits(n) ==
    IF n < 10 THEN <<DigitChar[n + 1]>>
    ELSE Append(DecDigits(n \div 10), DigitChar[(n % 10) + 1])

\* the k low decimal digits of n, zero padded
RECURSIVE PadDigits(_, _)
PadDigits(n, k) ==
    IF k = 0 THEN <<>>
    ELSE Append(PadDigits(n \div 10, k - 1), DigitChar[(n % 10) + 1])

\* i64::to_string: "-" for a negative value, then the magnitude in decimal
to_string(v) ==
    LET mag == IF v.h > 0 THEN DecDigits(v.h) \o PadDigits(v.m, 9) \o PadDigits(v.l, 9)
               ELSE IF v.m > 0 THEN DecDigits(v.m) \o PadDigits(v.l, 9)
               ELSE DecDigits(v.l)
    IN IF v.neg THEN <<"-">> \o mag ELSE mag

\* ----------------------------------------------------------------- parsing

\* magnitude comparison a <= b
MagLeq(a, b) ==
    \/ a.h < b.h
    \/ a.h = b.h /\ a.m < b.m
    \/ a.h = b.h /\ a.m = b.m /\ a.l <= b.l

\* result * 10 + d on the magnitude; None when it leaves the i64 range of its sign
MulAddDigit(v, d) ==
    IF v.h >= 10 THEN None
    ELSE LET top == Limb \div 10
             nl == (v.l % top) * 10 + d
             nm == (v.m % top) * 10 + (v.l \div top)
             nh == v.h * 10 + (v.m \div top)
             r  == [v EXCEPT !.h = nh, !.m = nm, !.l = nl]
         IN IF MagLeq(r, IF v.neg THEN I64_MIN ELSE I64_MAX) THEN r ELSE None

\* the digit loop of i64::from_str: checked_mul(10) then checked_add/sub(digit)
RECURSIVE ParseDigits(_, _)
ParseDigits(s, acc) ==
    IF acc = None THEN None
    ELSE IF s = <<>> THEN acc
    ELSE IF Head(s) \notin Digits THEN None
    ELSE ParseDigits(Tail(s), MulAddDigit(acc, DigitVal(Head(s))))

\* str::parse::<i64>: optional sign, at least one digit, digits only, in range
parse_i64(s) ==
    IF s = <<>> THEN None
    ELSE IF Head(s) \in {"+", "-"}
         THEN IF Len(s) = 1 THEN None
              ELSE LET r == ParseDigits(Tail(s), Val(Head(s) = "-", 0, 0, 0))
                   IN IF r = None THEN None ELSE Norm(r)
         ELSE ParseDigits(s, Zero)

\* char::is_whitespace: the code points with the Unicode White_Space property
\* (U+0009..U+000D, U+0020, U+0085, U+00A0, U+1680, U+2000..U+200A, U+2028,
\* U+2029, U+202F, U+205F, U+3000), one token each
WhiteSpace ==
    {"\t", "\n", "VT", "\f", "\r", " ", "NEL", "NBSP", "U+1680",
     "U+2000", "U+2001", "U+2002", "U+2003", "U+2004", "U+2005", "U+2006",
     "U+2007", "U+2008", "U+2009", "U+200A", "U+2028", "U+2029", "U+202F",
     "U+205F", "U+3000"}

\* str::trim_end: drop trailing whitespace
RECURSIVE trim_end(_)
trim_end(s) ==
    IF s # <<>> /\ s[Len(s)] \in WhiteSpace THEN trim_end(SubSeq(s, 1, Len(s) - 1))
    ELSE s

\* ------------------------------------------------------------------- files

\* no file at the path
Absent == <<"ABSENT">>

\* no file content recorded
Nothing == <<"NOTHING">>

\* a byte that is not valid UTF-8
BadByte == "0xFF"

\* a zero byte, as left by a write past the end of the file
NulByte == "NUL"

\* A token of a file is one character, or one byte that is part of none
\* (BadByte, NulByte).  Offsets and lengths of the file are counted in bytes.

\* the characters whose UTF-8 encoding takes two bytes (U+0080..U+07FF)
TwoBytes == {"NEL", "NBSP"}

\* the characters whose UTF-8 encoding takes three bytes (U+0800..U+FFFF)
ThreeBytes ==
    {"U+1680", "U+2000", "U+2001", "U+2002", "U+2003", "U+2004", "U+2005",
     "U+2006", "U+2007", "U+2008", "U+2009", "U+200A", "U+2028", "U+2029",
     "U+202F", "U+205F", "U+3000"}

\* the number of bytes a token takes in the file
Width(t) == IF t \in TwoBytes THEN 2 ELSE IF t \in ThreeBytes THEN 3 ELSE 1

\* the length of s in bytes
ByteLen(s) ==
    Len(s) + Cardinality({i \in 1..Len(s) : s[i] \in TwoBytes})
           + 2 * Cardinality({i \in 1..Len(s) : s[i] \in ThreeBytes})

\* n bytes that are left of a character cut in two: none is valid UTF-8
CutBytes(n) == [i \in 1..n |-> BadByte]

\* the bytes of f before offset p, f starting at offset off
RECURSIVE BytesBefore(_, _, _)
BytesBefore(f, off, p) ==
    IF f = <<>> THEN <<>>
    ELSE LET w == Width(Head(f))
         IN IF off + w <= p THEN <<Head(f)>> \o BytesBefore(Tail(f), off + w, p)
            ELSE IF off < p THEN CutBytes(p - off)
            ELSE <<>>

\* the bytes of f from offset q on, f starting at offset off
RECURSIVE BytesFrom(_, _, _)
BytesFrom(f, off, q) ==
    IF f = <<>> THEN <<>>
    ELSE LET w == Width(Head(f))
         IN IF off >= q THEN f
            ELSE IF off + w > q THEN CutBytes(off + w - q) \o Tail(f)
            ELSE BytesFrom(Tail(f), off + w, q)

\* the bytes BufRead::read_line consumes: through the first newline, or all
FirstLine(f) ==
    LET nl == {i \in 1..Len(f) : f[i] = "\n"}
    IN IF nl = {} THEN f
       ELSE SubSeq(f, 1, CHOOSE i \in nl : \A j \in nl : i <= j)

\* capacity of the buffer BufReader::new gives the reader
BufCap == 8192

Min(a, b) == IF a < b THEN a ELSE b

\* the number of buffers of BufCap bytes that n bytes take
Fills(n) == (n + BufCap - 1) \div BufCap

\* the read calls read_line makes on f: one per buffer up to the one holding
\* the first newline; with no newline, one per buffer and one that finds the end
Reads(f) ==
    LET line == FirstLine(f)
    IN IF line # <<>> /\ line[Len(line)] = "\n" THEN Fills(ByteLen(line))
       ELSE Fills(ByteLen(f)) + 1

\* the offset of the handle after k read calls on f have succeeded
OffsetAfter(f, k) == Min(ByteLen(f), BufCap * k)

\* read_line fails with InvalidData when the bytes it read are not UTF-8
ValidUtf8(s) == \A i \in 1..Len(s) : s[i] # BadByte

\* File::write_all at offset p: bytes beyond the end are zero filled
WriteAt(f, p, data) ==
    LET n == ByteLen(f)
        zeros == IF p > n THEN [i \in 1..(p - n) |-> NulByte] ELSE <<>>
    IN BytesBefore(f, 0, p) \o zeros \o data \o BytesFrom(f, 0, p + ByteLen(data))

\* ------------------------------------------------------------ key bindings

\* terminal events: key presses, and "resize" for an event that is no key
Events == {"+", "=", "space", "-", "_", "backspace", "q", "Q", "ctrl-c",
           "y", "Y", "n", "N", "x", "resize"}

\* choice_map of user_ok_with_overwrite
prompt_choice_map ==
    ("y" :> "y") @@ ("Y" :> "y") @@ ("n" :> "n") @@ ("N" :> "n") @@
    ("q" :> "q") @@ ("Q" :> "q") @@ ("ctrl-c" :> "q")

\* mutant of main_choice_map: '_' is bound to increment
main_choice_map_typo ==
    ("+" :> "+") @@ ("=" :> "+") @@ ("space" :> "+") @@
    ("-" :> "-") @@ ("_" :> "+") @@ ("backspace" :> "-") @@
    ("q" :> "q") @@ ("Q" :> "q") @@ ("ctrl-c" :> "q")

\* choice_map of main_real
main_choice_map ==
    ("+" :> "+") @@ ("=" :> "+") @@ ("space" :> "+") @@
    ("-" :> "-") @@ ("_" :> "-") @@ ("backspace" :> "-") @@
    ("q" :> "q") @@ ("Q" :> "q") @@ ("ctrl-c" :> "q")

ChoiceMap(c) == IF c = "prompt" THEN prompt_choice_map ELSE main_choice_map

\* ------------------------------------------------------------------ inputs

Str19Max == to_string(I64_MAX)

\* file contents the program may find at its path
InitFiles ==
    { Absent,
      <<>>,
      <<"4", "2">>,
      <<"4", "2", "\n">>,
      <<"4", "2", "\f">>,
      <<"4", "2", "NBSP">>,
      <<"-", "1">>,
      <<"1", "0">>,
      <<"\n">>,
      <<"x", "7">>,
      <<"7", "\n", "x">>,
      <<"7", BadByte>>,
      <<"7", "\n", BadByte>>,
      to_string(I64_MAX),
      to_string(I64_MIN),
      SubSeq(Str19Max, 1, 18) \o <<"8">> }

\* the files and start values the kill scenarios begin with
KillFiles == {<<"4", "2">>, <<"1", "0">>, <<"x", "7">>, to_string(I64_MAX)}

KillStartValues == {None, Small(10)}

\* the start_value argument
StartValues == {None, Zero, Small(10), I64_MAX, I64_MIN}

\* ------------------------------------------------------------------- state

VARIABLES
    pc,            \* the statement the process is at
    file,          \* content of the file at the path, or Absent
    pos,           \* offset of the open file handle
    start,         \* Args.start_value
    data_sync,     \* FileCounter.data_sync (= !Args.no_sync)
    count,         \* FileCounter.count
    raw,           \* the terminal is in raw mode
    cursorHidden,  \* the cursor is hidden
    priorMode,     \* the terminal mode enable_raw_mode saved for disable_raw_mode:
                   \* "cooked" or "raw", "none" while raw mode is not enabled
    caller,        \* who called get_character_choice: "prompt" or "main"
    pcaller,       \* who called persist: "new" or "tick"
    key,           \* the last terminal event read
    choice,        \* the value get_character_choice returned
    keys,          \* number of terminal events read
    exitStatus,    \* exit status of the process, -1 while it runs
    err,           \* the error the run ended with
    synced,        \* the file content last passed to sync_data, or Nothing
    \* history
    initFile,      \* the file before the process started
    promptShown,   \* the recovery prompt was rendered
    answer,        \* the choice made at the recovery prompt
    ioFailed,      \* an I/O operation returned an error
    acquired,      \* enable_raw_mode and cursor::Hide have both returned Ok
    tick,          \* the increment or decrement in progress or last done
    quit,          \* a quit key was read in the main loop
    persist0,      \* the file when the current persist began
    crash,         \* what a kill interrupted
    restarts       \* number of restarts after a kill

vars == <<pc, file, pos, start, data_sync, count, raw, cursorHidden, priorMode, caller,
          pcaller, key, choice, keys, exitStatus, err, synced, initFile,
          promptShown, answer, ioFailed, acquired, tick, quit, persist0,
          crash, restarts>>

inputs == <<start, data_sync, initFile>>
disk == <<file, pos, synced>>
term == <<raw, cursorHidden, priorMode, acquired>>
kbd == <<key, choice, keys>>
hist == <<promptShown, answer, tick, quit, persist0>>
killv == <<crash, restarts>>

\* the state when the process starts on file f with start value sv
Begin(f, sv) ==
    /\ pc = "open"
    /\ file = f
    /\ initFile = file
    /\ pos = 0
    /\ start = sv
    /\ data_sync \in BOOLEAN
    /\ count = Zero
    /\ raw = FALSE
    /\ cursorHidden = FALSE
    /\ priorMode = "none"
    /\ caller = "none"
    /\ pcaller = "none"
    /\ key = "none"
    /\ choice = "none"
    /\ keys = 0
    /\ exitStatus = -1
    /\ err = "none"
    /\ synced = Nothing
    /\ promptShown = FALSE
    /\ answer = "none"
    /\ ioFailed = FALSE
    /\ acquired = FALSE
    /\ tick = None
    /\ quit = FALSE
    /\ persist0 = Nothing
    /\ crash = None
    /\ restarts = 0

Init == \E f \in InitFiles : \E sv \in StartValues : Begin(f, sv)

InitKill == \E f \in KillFiles : \E sv \in KillStartValues : Begin(f, sv)

\* --------------------------------------------------------- leaving the run

\* main: an Err from main_real is printed with eprintln! and the process exits
\* with 1; eprintln! panics when stderr cannot be written, and the process
\* then ends with 101
MainErr(e, io) ==
    /\ pc' = "exited"
    /\ \E printed \in BOOLEAN :
        /\ exitStatus' = IF printed THEN 1 ELSE 101
        /\ err' = IF printed THEN e ELSE "panic"
        /\ ioFailed' = (ioFailed \/ io \/ ~printed)

\* an operation returned Err and `?` hands it up to main
IoErr ==
    /\ MainErr("io", TRUE)
    /\ UNCHANGED <<inputs, disk, term, kbd, hist, killv, count, caller, pcaller>>

\* execute(cursor::Hide / cursor::Show) returned Err: the escape sequence stays
\* in the buffer of stdout, which is flushed once more when the process exits,
\* so the cursor ends as it was or as the command asked (h)
CursorErr(h) ==
    /\ MainErr("io", TRUE)
    /\ \E late \in BOOLEAN : cursorHidden' = IF late THEN h ELSE cursorHidden
    /\ UNCHANGED <<inputs, disk, raw, priorMode, acquired, kbd, hist, killv, count,
                   caller, pcaller>>

\* println! panics when stdout cannot be written: the process ends with 101
PrintPanic ==
    /\ pc' = "exited"
    /\ exitStatus' = 101
    /\ err' = "panic"
    /\ ioFailed' = TRUE
    /\ UNCHANGED <<inputs, disk, term, kbd, hist, killv, count, caller, pcaller>>

\* the terminal after a terminal call: raw mode r, cursor hidden h, saved mode
\* p, and a for acquired
SetTerm(r, h, p, a) ==
    /\ raw' = r
    /\ cursorHidden' = h
    /\ priorMode' = p
    /\ acquired' = a

\* a terminal call that succeeds and moves on to `next`
TermStep(r, h, p, next) ==
    /\ SetTerm(r, h, p, acquired)
    /\ pc' = next
    /\ UNCHANGED <<inputs, disk, kbd, hist, killv, count, caller, pcaller,
                   exitStatus, err, ioFailed>>

\* a terminal call that changes nothing and moves on to `next`
TermSkip(next) == TermStep(raw, cursorHidden, priorMode, next)

\* terminal::enable_raw_mode: Ok at once when a mode is already saved; else the
\* mode the terminal is in is saved and the terminal is made raw
enable_raw_mode(next) ==
    IF priorMode # "none" THEN TermSkip(next)
    ELSE \E ok \in BOOLEAN :
            IF ok
            THEN TermStep(TRUE, cursorHidden, IF raw THEN "raw" ELSE "cooked", next)
            ELSE IoErr

\* terminal::disable_raw_mode: Ok at once when no mode is saved; else the
\* terminal is put back in the saved mode and the saved mode is dropped
disable_raw_mode(next) ==
    IF priorMode = "none" THEN TermSkip(next)
    ELSE \E ok \in BOOLEAN :
            IF ok
            THEN TermStep(priorMode = "raw", cursorHidden, "none", next)
            ELSE IoErr

\* acquired after execute(cursor::Hide) (h = TRUE) or execute(cursor::Show)
\* returned Ok: cursor::Hide sets it in a process whose enable_raw_mode has
\* returned Ok
CursorOk(h) == acquired \/ (h /\ priorMode # "none")

\* execute(cursor::Hide) (h = TRUE) or execute(cursor::Show) (h = FALSE)
execute_cursor(h, next) ==
    \E ok \in BOOLEAN :
        IF ok
        THEN /\ SetTerm(raw, h, priorMode, CursorOk(h))
             /\ pc' = next
             /\ UNCHANGED <<inputs, disk, kbd, hist, killv, count, caller, pcaller,
                            exitStatus, err, ioFailed>>
        ELSE CursorErr(h)

\* println!(): panics when stdout cannot be written
println(next) ==
    \E ok \in BOOLEAN : IF ok THEN TermSkip(next) ELSE PrintPanic

\* ------------------------------------------------------- FileCounter::new

\* OpenOptions read+write+create, no truncate: an absent file is created empty
Open ==
    /\ pc = "open"
    /\ \E ok \in BOOLEAN :
        IF ok
        THEN /\ file' = IF file = Absent THEN <<>> ELSE file
             /\ pos' = 0
             /\ pc' = "load"
             /\ UNCHANGED <<inputs, term, kbd, hist, killv, count, caller, pcaller,
                            exitStatus, err, ioFailed, synced>>
        ELSE IoErr

\* mutant of LoadLine: the line is parsed without trim_end
LoadLine_NoTrim(line) ==
    LET v == parse_i64(line)
    IN IF v # None THEN [count |-> v, prompt |-> FALSE]
       ELSE [count |-> Zero, prompt |-> line # <<>>]

\* mutant of LoadLine: an empty line is taken for invalid content too
LoadLine_PromptEmpty(line) ==
    LET v == parse_i64(trim_end(line))
    IN IF v # None THEN [count |-> v, prompt |-> FALSE]
       ELSE [count |-> Zero, prompt |-> TRUE]

\* what the parse of the line read decides: the count and whether to prompt
LoadLine(line) ==
    LET v == parse_i64(trim_end(line))
    IN IF v # None THEN [count |-> v, prompt |-> FALSE]
       ELSE [count |-> Zero, prompt |-> line # <<>>]

\* Some(value): the count is the start value
LoadStart ==
    /\ count' = start
    /\ pc' = "persist_seek"
    /\ pcaller' = "new"
    /\ UNCHANGED <<pos, ioFailed, caller>>

\* None: the count is read from the first line of the file
\* failAt is the read call that returns an error, 0 when none does
LoadFile ==
    \E failAt \in 0..Reads(file) :
        LET line == FirstLine(file)
        IN IF failAt = 0 /\ ValidUtf8(line)
           THEN LET r == LoadLine(line)
                IN /\ count' = r.count
                   /\ pos' = OffsetAfter(file, Reads(file))
                   /\ pc' = IF r.prompt THEN "prompt_raw" ELSE "persist_seek"
                   /\ pcaller' = IF r.prompt THEN pcaller ELSE "new"
                   /\ caller' = IF r.prompt THEN "prompt" ELSE caller
                   /\ UNCHANGED ioFailed
           ELSE \* read_line(..).is_ok() is false: the block is skipped
                /\ count' = Zero
                /\ pos' = OffsetAfter(file, IF failAt = 0 THEN Reads(file)
                                                         ELSE failAt - 1)
                /\ pc' = "persist_seek"
                /\ pcaller' = "new"
                /\ ioFailed' = TRUE
                /\ UNCHANGED caller

\* mutant of Load: the file is read even when a start value is given
Load_FileFirst ==
    /\ pc = "load"
    /\ LoadFile
    /\ UNCHANGED <<inputs, file, synced, term, kbd, hist, killv, exitStatus, err>>

\* the initial count: the start value, else the first line of the file, else 0
Load ==
    /\ pc = "load"
    /\ IF start # None THEN LoadStart ELSE LoadFile
    /\ UNCHANGED <<inputs, file, synced, term, kbd, hist, killv, exitStatus, err>>

\* ------------------------------------------------- user_ok_with_overwrite

PromptEnableRaw ==
    /\ pc = "prompt_raw"
    /\ enable_raw_mode("prompt_hide")

PromptHide ==
    /\ pc = "prompt_hide"
    /\ execute_cursor(TRUE, "gcc_render")

PromptShow ==
    /\ pc = "prompt_show"
    /\ execute_cursor(FALSE, "prompt_unraw")

\* mutant of PromptDisableRaw: raw mode is left on
PromptDisableRaw_Skip ==
    /\ pc = "prompt_unraw"
    /\ \E ok \in BOOLEAN :
        IF ok THEN TermSkip("prompt_println") ELSE IoErr

\* terminal::disable_raw_mode
PromptDisableRaw ==
    /\ pc = "prompt_unraw"
    /\ disable_raw_mode("prompt_println")

PromptPrintln ==
    /\ pc = "prompt_println"
    /\ println("prompt_match")

\* mutant of PromptMatch: 'n' is taken as consent, like 'y'
PromptMatch_NoAsYes ==
    /\ pc = "prompt_match"
    /\ answer' = choice
    /\ IF choice \in {"y", "n"}
       THEN /\ pc' = "persist_seek"
            /\ pcaller' = "new"
            /\ UNCHANGED <<exitStatus, err, ioFailed>>
       ELSE /\ pc' = "exited"
            /\ exitStatus' = 1
            /\ UNCHANGED <<err, ioFailed, pcaller>>
    /\ UNCHANGED <<inputs, disk, term, kbd, killv, count, caller,
                   promptShown, tick, quit, persist0>>

\* 'y' => Ok(true); 'n' => Ok(false), which new turns into InvalidData;
\* 'q' => std::process::exit(1)
PromptMatch ==
    /\ pc = "prompt_match"
    /\ answer' = choice
    /\ IF choice = "y"
       THEN /\ pc' = "persist_seek"
            /\ pcaller' = "new"
            /\ UNCHANGED <<exitStatus, err, ioFailed>>
       ELSE IF choice = "n"
       THEN /\ MainErr("InvalidData", FALSE)
            /\ UNCHANGED pcaller
       ELSE /\ pc' = "exited"
            /\ exitStatus' = 1
            /\ UNCHANGED <<err, ioFailed, pcaller>>
    /\ UNCHANGED <<inputs, disk, term, kbd, killv, count, caller,
                   promptShown, tick, quit, persist0>>

\* --------------------------------------------------- get_character_choice

\* execute(Clear) or flush returned Err: when it is the flush of the prompt,
\* the text stays in the buffer of stdout, which is flushed once more when the
\* process exits, so the terminal may receive the prompt all the same
RenderErr ==
    /\ MainErr("io", TRUE)
    /\ \E late \in BOOLEAN :
        promptShown' = (promptShown \/ (late /\ caller = "prompt"))
    /\ UNCHANGED <<inputs, disk, term, kbd, killv, count, caller, pcaller,
                   answer, tick, quit, persist0>>

\* clear the line, print the prompt, flush stdout
Render ==
    /\ pc = "gcc_render"
    /\ \E ok \in BOOLEAN :
        IF ok
        THEN /\ pc' = "gcc_read"
             /\ promptShown' = (promptShown \/ caller = "prompt")
             /\ UNCHANGED <<inputs, disk, term, kbd, killv, count, caller, pcaller,
                            exitStatus, err, ioFailed, answer, tick, quit, persist0>>
        ELSE RenderErr

\* where get_character_choice returns to
ReturnTo(c) == IF c = "prompt" THEN "prompt_show" ELSE "main_match"

\* mutant of ReadEvent: a key that is not in the map is an error
ReadEvent_UnmappedErr ==
    /\ pc = "gcc_read"
    /\ keys < MaxKeys
    /\ \E ok \in BOOLEAN :
        IF ok
        THEN \E ev \in Events :
             /\ key' = ev
             /\ keys' = keys + 1
             /\ IF ev \in DOMAIN ChoiceMap(caller)
                THEN /\ choice' = ChoiceMap(caller)[ev]
                     /\ pc' = ReturnTo(caller)
                     /\ UNCHANGED <<exitStatus, err>>
                ELSE /\ pc' = "exited"
                     /\ exitStatus' = 1
                     /\ err' = "InvalidData"
                     /\ UNCHANGED choice
             /\ UNCHANGED <<inputs, disk, term, hist, killv, count, caller, pcaller,
                            ioFailed>>
        ELSE IoErr

\* mutant of ReadEvent: the reader returns on any key, mapped or not
ReadEvent_ReturnsAny ==
    /\ pc = "gcc_read"
    /\ keys < MaxKeys
    /\ \E ok \in BOOLEAN :
        IF ok
        THEN \E ev \in Events :
             /\ key' = ev
             /\ keys' = keys + 1
             /\ choice' = IF ev \in DOMAIN ChoiceMap(caller)
                          THEN ChoiceMap(caller)[ev] ELSE choice
             /\ pc' = ReturnTo(caller)
             /\ UNCHANGED <<inputs, disk, term, hist, killv, count, caller, pcaller,
                            exitStatus, err, ioFailed>>
        ELSE IoErr

\* event::read, then the lookup in the choice map
ReadEvent ==
    /\ pc = "gcc_read"
    /\ keys < MaxKeys
    /\ \E ok \in BOOLEAN :
        IF ok
        THEN \E ev \in Events :
             /\ key' = ev
             /\ keys' = keys + 1
             /\ IF ev \in DOMAIN ChoiceMap(caller)
                THEN /\ choice' = ChoiceMap(caller)[ev]
                     /\ pc' = ReturnTo(caller)
                ELSE /\ pc' = "gcc_render"
                     /\ UNCHANGED choice
             /\ UNCHANGED <<inputs, disk, term, hist, killv, count, caller, pcaller,
                            exitStatus, err, ioFailed>>
        ELSE IoErr

\* ------------------------------------------------------------- persist

\* what persist leaves a step in when it succeeds
AfterPersist(c) == IF c = "new" THEN "main_raw" ELSE "gcc_render"

\* mutant of PersistSeek: the handle stays where the read left it
PersistSeek_NoSeek ==
    /\ pc = "persist_seek"
    /\ \E ok \in BOOLEAN :
        IF ok
        THEN /\ persist0' = file
             /\ pc' = "persist_set_len"
             /\ UNCHANGED <<inputs, disk, term, kbd, killv, count, caller,
                            pcaller, exitStatus, err, ioFailed, promptShown, answer,
                            tick, quit>>
        ELSE IoErr

\* File::seek(SeekFrom::Start(0))
PersistSeek ==
    /\ pc = "persist_seek"
    /\ \E ok \in BOOLEAN :
        IF ok
        THEN /\ pos' = 0
             /\ persist0' = file
             /\ pc' = "persist_set_len"
             /\ UNCHANGED <<inputs, file, synced, term, kbd, killv, count, caller,
                            pcaller, exitStatus, err, ioFailed, promptShown, answer,
                            tick, quit>>
        ELSE IoErr

\* mutant of PersistSetLen: the file is not truncated before the write
PersistSetLen_NoTruncate ==
    /\ pc = "persist_set_len"
    /\ \E ok \in BOOLEAN :
        IF ok
        THEN /\ pc' = "persist_write"
             /\ UNCHANGED <<inputs, disk, term, kbd, hist, killv, count,
                            caller, pcaller, exitStatus, err, ioFailed>>
        ELSE IoErr

\* File::set_len(0)
PersistSetLen ==
    /\ pc = "persist_set_len"
    /\ \E ok \in BOOLEAN :
        IF ok
        THEN /\ file' = <<>>
             /\ pc' = "persist_write"
             /\ UNCHANGED <<inputs, pos, synced, term, kbd, hist, killv, count,
                            caller, pcaller, exitStatus, err, ioFailed>>
        ELSE IoErr

\* File::write_all(count.to_string().as_bytes())
PersistWrite ==
    /\ pc = "persist_write"
    /\ \E ok \in BOOLEAN :
        IF ok
        THEN LET data == to_string(count)
             IN /\ file' = WriteAt(file, pos, data)
                /\ pos' = pos + Len(data)
                /\ pc' = "persist_flush"
                /\ UNCHANGED <<inputs, synced, term, kbd, hist, killv, count,
                               caller, pcaller, exitStatus, err, ioFailed>>
        ELSE IoErr

\* mutant of PersistFlush: data_sync is not honoured, sync_data is never called
PersistFlush_NoSync ==
    /\ pc = "persist_flush"
    /\ \E ok \in BOOLEAN :
        IF ok
        THEN /\ pc' = AfterPersist(pcaller)
             /\ UNCHANGED <<inputs, disk, term, kbd, hist, killv, count, caller,
                            pcaller, exitStatus, err, ioFailed>>
        ELSE IoErr

\* File::flush, then the test of data_sync
PersistFlush ==
    /\ pc = "persist_flush"
    /\ \E ok \in BOOLEAN :
        IF ok
        THEN /\ pc' = IF data_sync THEN "persist_sync" ELSE AfterPersist(pcaller)
             /\ UNCHANGED <<inputs, disk, term, kbd, hist, killv, count, caller,
                            pcaller, exitStatus, err, ioFailed>>
        ELSE IoErr

\* File::sync_data
PersistSync ==
    /\ pc = "persist_sync"
    /\ \E ok \in BOOLEAN :
        IF ok
        THEN /\ synced' = file
             /\ pc' = AfterPersist(pcaller)
             /\ UNCHANGED <<inputs, file, pos, term, kbd, hist, killv, count, caller,
                            pcaller, exitStatus, err, ioFailed>>
        ELSE IoErr

\* --------------------------------------------------------------- main_real

MainEnableRaw ==
    /\ pc = "main_raw"
    /\ enable_raw_mode("main_hide")

\* cursor::Hide, then the loop's first call of get_character_choice
MainHide ==
    /\ pc = "main_hide"
    /\ \E ok \in BOOLEAN :
        IF ok
        THEN /\ SetTerm(raw, TRUE, priorMode, CursorOk(TRUE))
             /\ pc' = "gcc_render"
             /\ caller' = "main"
             /\ UNCHANGED <<inputs, disk, kbd, hist, killv, count, pcaller,
                            exitStatus, err, ioFailed>>
        ELSE CursorErr(TRUE)

\* FileCounter::increment up to its call of persist
Increment ==
    /\ pc = "main_match"
    /\ choice = "+"
    /\ LET r == checked_add(count)
       IN /\ tick' = [op |-> "+", count |-> count, file |-> file, over |-> r = None]
          /\ count' = IF r = None THEN count ELSE r
          /\ pc' = IF r = None THEN "notice_unraw" ELSE "persist_seek"
    /\ pcaller' = "tick"
    /\ UNCHANGED <<inputs, disk, term, kbd, killv, caller, exitStatus, err,
                   ioFailed, promptShown, answer, quit, persist0>>

\* FileCounter::decrement up to its call of persist
Decrement ==
    /\ pc = "main_match"
    /\ choice = "-"
    /\ LET r == checked_sub(count)
       IN /\ tick' = [op |-> "-", count |-> count, file |-> file, over |-> r = None]
          /\ count' = IF r = None THEN count ELSE r
          /\ pc' = IF r = None THEN "notice_unraw" ELSE "persist_seek"
    /\ pcaller' = "tick"
    /\ UNCHANGED <<inputs, disk, term, kbd, killv, caller, exitStatus, err,
                   ioFailed, promptShown, answer, quit, persist0>>

\* the overflow / underflow notice: leave raw mode, print a line, enter it again
NoticeDisableRaw ==
    /\ pc = "notice_unraw"
    /\ disable_raw_mode("notice_println")

NoticePrintln ==
    /\ pc = "notice_println"
    /\ println("notice_raw")

\* mutant of NoticeEnableRaw: raw mode is not entered again after the notice
NoticeEnableRaw_Skip ==
    /\ pc = "notice_raw"
    /\ \E ok \in BOOLEAN :
        IF ok THEN TermSkip("persist_seek") ELSE IoErr

\* terminal::enable_raw_mode after the notice
NoticeEnableRaw ==
    /\ pc = "notice_raw"
    /\ enable_raw_mode("persist_seek")

\* mutant of Quit: the value is persisted once more and the loop goes on
Quit_Persist ==
    /\ pc = "main_match"
    /\ choice = "q"
    /\ quit' = TRUE
    /\ pc' = "persist_seek"
    /\ UNCHANGED <<inputs, disk, term, kbd, killv, count, caller, pcaller,
                   exitStatus, err, ioFailed, promptShown, answer, tick, persist0>>

\* 'q' => break
Quit ==
    /\ pc = "main_match"
    /\ choice = "q"
    /\ quit' = TRUE
    /\ pc' = "main_show"
    /\ UNCHANGED <<inputs, disk, term, kbd, killv, count, caller, pcaller,
                   exitStatus, err, ioFailed, promptShown, answer, tick, persist0>>

MainShow ==
    /\ pc = "main_show"
    /\ execute_cursor(FALSE, "main_unraw")

MainDisableRaw ==
    /\ pc = "main_unraw"
    /\ disable_raw_mode("main_println")

\* println!() and Ok(()): main returns and the process exits with 0
MainPrintln ==
    /\ pc = "main_println"
    /\ \E ok \in BOOLEAN :
        IF ok
        THEN /\ pc' = "exited"
             /\ exitStatus' = 0
             /\ UNCHANGED <<inputs, disk, term, kbd, hist, killv, count, caller,
                            pcaller, err, ioFailed>>
        ELSE PrintPanic

\* ------------------------------------------------------ kill and restart

PersistPcs == {"persist_seek", "persist_set_len", "persist_write",
               "persist_flush", "persist_sync"}

\* the process is killed inside persist: nothing more of it runs
Kill ==
    /\ pc \in PersistPcs
    /\ pc' = "killed"
    /\ crash' = [old |-> IF pc = "persist_seek" THEN file ELSE persist0,
                 new |-> to_string(count),
                 at |-> pc]
    /\ UNCHANGED <<inputs, disk, term, kbd, hist, count, caller, pcaller,
                   exitStatus, err, ioFailed, restarts>>

\* the program is started again on the same path, with no start value
Restart ==
    /\ pc = "killed"
    /\ restarts < MaxRestarts
    /\ restarts' = restarts + 1
    /\ pc' = "open"
    /\ start' = None
    /\ initFile' = file
    /\ pos' = 0
    /\ count' = Zero
    /\ caller' = "none"
    /\ pcaller' = "none"
    /\ key' = "none"
    /\ choice' = "none"
    /\ exitStatus' = -1
    /\ err' = "none"
    /\ promptShown' = FALSE
    /\ answer' = "none"
    /\ ioFailed' = FALSE
    /\ acquired' = FALSE
    /\ priorMode' = "none"
    /\ tick' = None
    /\ quit' = FALSE
    /\ persist0' = Nothing
    /\ UNCHANGED <<file, synced, data_sync, raw, cursorHidden, keys, crash>>

Next ==
    \/ Open
    \/ Load
    \/ PromptEnableRaw
    \/ PromptHide
    \/ PromptShow
    \/ PromptDisableRaw
    \/ PromptPrintln
    \/ PromptMatch
    \/ Render
    \/ ReadEvent
    \/ PersistSeek
    \/ PersistSetLen
    \/ PersistWrite
    \/ PersistFlush
    \/ PersistSync
    \/ MainEnableRaw
    \/ MainHide
    \/ Increment
    \/ Decrement
    \/ NoticeDisableRaw
    \/ NoticePrintln
    \/ NoticeEnableRaw
    \/ Quit
    \/ MainShow
    \/ MainDisableRaw
    \/ MainPrintln

Spec == Init /\ [][Next]_vars

\* the program under kills inside persist, each followed by a restart
NextKill ==
    \/ Next
    \/ Kill
    \/ Restart

SpecKill == InitKill /\ [][NextKill]_vars

\* the program when the terminal keeps delivering events: the prompt is
\* rendered and a pending event is read
SpecLive == Init /\ [][Next]_vars /\ WF_vars(Render) /\ WF_vars(ReadEvent)

\* ------------------------------------------------------------------ claims

\* FileCounter::new has returned Ok and no increment or decrement is running:
\* the process is between operations of the counter
Idle ==
    \/ pc \in {"main_raw", "main_hide"}
    \/ caller = "main" /\ pc \in {"gcc_render", "gcc_read", "main_match"}

\* an increment or decrement has returned Ok and the loop waits again
Returned == caller = "main" /\ tick # None /\ pc \in {"gcc_render", "gcc_read", "main_match"}

\* the content the program found at its path (nothing when there was no file)
InitContent == IF initFile = Absent THEN <<>> ELSE initFile

\* C1: whenever new, increment or decrement has returned successfully, the
\* file is exactly the decimal rendering of the in-memory count: it reads
\* back (first line, trimmed, parsed) to the count, and it is no longer than
\* that rendering, so no byte of an earlier, longer rendering is left.
C1_FileIsRendering ==
    Idle =>
        /\ file = to_string(count)
        /\ parse_i64(trim_end(FirstLine(file))) = count
        /\ Len(file) = Len(to_string(count))

\* C1 witness: a decrement from 10 has returned; the file holds "9" alone
C1_Witness ==
    /\ Returned
    /\ tick.op = "-"
    /\ tick.count = Small(10)
    /\ tick.file = <<"1", "0">>
    /\ count = Small(9)
    /\ file = <<"9">>

\* C2 (as claimed): after a kill inside persist and a restart with no start
\* value, the value the restarted program loads is the one the file held
\* when the interrupted persist began or the one that persist was writing.
C2_KillLeavesOldOrNew ==
    ( /\ restarts > 0
      /\ pc = "persist_seek"
      /\ pcaller = "new"
      /\ ~ioFailed
      /\ parse_i64(crash.old) # None )
    => count \in {parse_i64(crash.old), parse_i64(crash.new)}

\* C3: with an explicit start value the recovery prompt is never shown, and
\* once new has returned the count is the start value and the file holds
\* its rendering, whatever the file held before.
C3_ExplicitStart ==
    start # None =>
        /\ ~promptShown
        /\ answer = "none"
        /\ (pcaller = "new" /\ pc \in PersistPcs => count = start)
        /\ (pc = "main_raw" => count = start /\ file = to_string(start))

\* C3 witness: start value 10 on a file that held non-numeric content
C3_Witness ==
    /\ start = Small(10)
    /\ initFile = <<"x", "7">>
    /\ pc = "main_raw"
    /\ count = Small(10)
    /\ file = <<"1", "0">>

\* C4: with no start value, when the first line was read: if it parses,
\* trimmed of trailing whitespace, as an i64 n then the initial count is n;
\* if the file was absent or empty the initial count is 0; in both cases
\* the recovery prompt was not shown.  "42", "42\n" and "42\f" all give 42.
C4_FromFile ==
    LET v == parse_i64(trim_end(FirstLine(InitContent)))
    IN ( /\ start = None
         /\ restarts = 0
         /\ ~ioFailed
         /\ pc = "main_raw" \/ (pcaller = "new" /\ pc \in PersistPcs) )
       => /\ (v # None => count = v /\ ~promptShown)
          /\ (InitContent = <<>> => count = Zero /\ ~promptShown)
          /\ (initFile \in {<<"4", "2">>, <<"4", "2", "\n">>, <<"4", "2", "\f">>,
                            <<"4", "2", "NBSP">>}
                => count = Small(42))

\* C4 witness: "42\n" was loaded as 42 without a prompt
C4_Witness ==
    /\ start = None
    /\ initFile = <<"4", "2", "\n">>
    /\ pc = "main_raw"
    /\ count = Small(42)
    /\ ~promptShown

\* the recovery prompt returned 'n'
AnsweredNo == caller = "prompt" /\ choice = "n"

\* C5: once 'n' is answered at the recovery prompt no counter is created,
\* the file stays what it was before the program started, and, unless
\* restoring the terminal fails first, the run ends with InvalidData and
\* exit status 1.
C5_NoLeavesFile ==
    AnsweredNo =>
        /\ file = initFile
        /\ start = None
        /\ pc \in {"prompt_show", "prompt_unraw", "prompt_println", "prompt_match", "exited"}
        /\ (pc = "exited" /\ err \notin {"io", "panic"} =>
                err = "InvalidData" /\ exitStatus = 1 /\ answer = "n")

\* C5 witness: 'n' on a file of non-numeric content ended in InvalidData
C5_Witness ==
    /\ AnsweredNo
    /\ pc = "exited"
    /\ err = "InvalidData"
    /\ initFile = <<"x", "7">>
    /\ file = <<"x", "7">>

\* the operation in progress or last done is an increment at i64::MAX or a
\* decrement at i64::MIN
AtBoundary ==
    /\ tick # None
    /\ \/ tick.op = "+" /\ tick.count = I64_MAX
       \/ tick.op = "-" /\ tick.count = I64_MIN

\* C6: an increment at i64::MAX, or a decrement at i64::MIN, never changes
\* the count; when it has returned the file is what it was before the key
\* and the loop waits for the next key; the run ends after it only by a
\* quit key or by an I/O failure, never by an error of the operation.
C6_BoundaryNoOp ==
    AtBoundary =>
        /\ count = tick.count
        /\ (Returned => file = tick.file /\ file = to_string(count))
        /\ (pc = "exited" => quit \/ err \in {"io", "panic"})
        /\ err \notin {"InvalidData"}

\* C6 witness: an increment at i64::MAX has returned and the next key is awaited
C6_Witness ==
    /\ Returned
    /\ pc = "gcc_read"
    /\ tick.op = "+"
    /\ tick.count = I64_MAX
    /\ count = I64_MAX
    /\ file = tick.file

\* C7: a decrement at v > i64::MIN leaves the count at v - 1 (so count + 1
\* is v) and, when it has returned, the file holds the signed rendering of
\* v - 1; from 0 the count is -1 and the file "-1".
C7_Decrement ==
    (tick # None /\ tick.op = "-" /\ tick.count # I64_MIN) =>
        /\ count # tick.count
        /\ checked_add(count) = tick.count
        /\ (Returned => file = to_string(count))
        /\ (tick.count = Zero =>
                /\ count = Val(TRUE, 0, 0, 1)
                /\ (Returned => file = <<"-", "1">>))

\* C7 witness: a decrement from 0 has returned with -1 in memory and on file
C7_Witness ==
    /\ Returned
    /\ tick.op = "-"
    /\ tick.count = Zero
    /\ count = Small(-1)
    /\ file = <<"-", "1">>

\* C8: once a quit key is read the loop is left for good: the process is
\* restoring the terminal or has exited, the file holds the rendering of
\* the value after the last operation (the start value when there was
\* none), no step changes the file or its handle any more, and the exit
\* status is 0 unless restoring the terminal failed.
C8_Quit ==
    /\ [](quit =>
            /\ pc \in {"main_show", "main_unraw", "main_println", "exited"}
            /\ file = to_string(count)
            /\ (tick = None /\ start # None => file = to_string(start))
            /\ (pc = "exited" /\ err = "none" => exitStatus = 0))
    /\ [][quit => UNCHANGED <<file, pos, synced, count>>]_vars

\* C8 witness: quit right after start on a file "42\n": exit 0, file "42"
C8_Witness ==
    /\ quit
    /\ pc = "exited"
    /\ exitStatus = 0
    /\ tick = None
    /\ initFile = <<"4", "2", "\n">>
    /\ count = Small(42)
    /\ file = <<"4", "2">>

\* C9 (as claimed): when the process has exited after raw mode was enabled
\* and the cursor hidden, raw mode is disabled and the cursor is shown.
C9_TerminalRestored ==
    (pc = "exited" /\ acquired) => (~raw /\ ~cursorHidden)

\* C10 (as claimed): once an I/O operation has failed the run is over with
\* exit status 1: nothing more is read, changed or written.  (A run that
\* ended in a panic of println! or eprintln!, with status 101, is left aside.)
C10_IoFailureFatal ==
    (ioFailed /\ err # "panic") => (pc = "exited" /\ exitStatus = 1)

\* C11: with data_sync, whenever persist has returned (so whenever a key
\* event is awaited) the content passed to sync_data last is the rendering
\* of the current count, and sync_data runs on the content already
\* written; without data_sync the file is truncated and written all the
\* same but sync_data is never called.
C11_Durability ==
    /\ (data_sync /\ Idle => synced = file /\ synced = to_string(count))
    /\ (pc = "persist_sync" => data_sync /\ file = to_string(count))
    /\ (~data_sync => synced = Nothing)
    /\ (~data_sync /\ Idle => file = to_string(count))

\* C11 witness: an increment has returned under data_sync with its value synced
C11_Witness ==
    /\ data_sync
    /\ Returned
    /\ pc = "gcc_read"
    /\ tick.op = "+"
    /\ tick.count = Small(10)
    /\ synced = <<"1", "1">>

\* C12 (as claimed): through an increment at i64::MAX or a decrement at
\* i64::MIN, and until the next key is handled, persist is not entered and
\* the file stays what it was when the key was read.
C12_OverflowSkipsPersist ==
    AtBoundary => (pc \notin PersistPcs /\ file = tick.file)

\* the content found is a counter file: empty, or one line holding a
\* decimal i64, with or without a newline after it
IsCounterFile(c) ==
    \/ c = <<>>
    \/ FirstLine(c) = c /\ parse_i64(trim_end(c)) # None

\* C13: the recovery prompt is rendered only when there is no start value,
\* the line read from the file is not empty and it does not parse, trimmed
\* of trailing whitespace, as an i64.
C13_PromptOnlyWhen ==
    (promptShown /\ restarts = 0) =>
        /\ start = None
        /\ FirstLine(InitContent) # <<>>
        /\ parse_i64(trim_end(FirstLine(InitContent))) = None
        /\ initFile \notin {Absent, <<>>, <<"4", "2">>, <<"4", "2", "\n">>}

\* C13 witness: the prompt is up for a file holding an out-of-range number
C13_Witness ==
    /\ promptShown
    /\ pc = "gcc_read"
    /\ caller = "prompt"
    /\ start = None
    /\ initFile = SubSeq(Str19Max, 1, 18) \o <<"8">>

\* C14 (as claimed): with no start value and every read succeeding, a file
\* that is not a counter file is changed only after 'y' was answered at
\* the recovery prompt.
C14_NoSilentLoss ==
    ( /\ start = None
      /\ restarts = 0
      /\ ~ioFailed
      /\ ~IsCounterFile(InitContent)
      /\ file # initFile )
    => answer = "y"

\* C15: after 'y' at the recovery prompt the count is 0, and when new has
\* returned the file holds "0" and nothing of the content it had.
C15_YesStartsAtZero ==
    (answer = "y" /\ restarts = 0) =>
        /\ key \in {"y", "Y"} \/ caller = "main"
        /\ (pcaller = "new" /\ pc \in PersistPcs => count = Zero)
        /\ (pc \in {"main_raw", "main_hide"} => count = Zero /\ file = <<"0">>)
        /\ (Idle => file = to_string(count))

\* C15 witness: 'Y' on a file of two non-numeric lines: new returned, file "0"
C15_Witness ==
    /\ answer = "y"
    /\ key = "Y"
    /\ initFile = <<"x", "7">>
    /\ pc = "main_raw"
    /\ count = Zero
    /\ file = <<"0">>

\* the recovery prompt returned 'q'
AnsweredQuit == caller = "prompt" /\ choice = "q"

\* C16: once 'q' (or 'Q', ctrl-c) is answered at the recovery prompt no
\* counter is created and the file stays what it was; the process shows
\* the cursor, leaves raw mode and exits with status 1, so that at its
\* exit, unless one of those terminal calls failed, the terminal is
\* restored.
C16_PromptQuit ==
    AnsweredQuit =>
        /\ file = initFile
        /\ key \in {"q", "Q", "ctrl-c"}
        /\ pc \in {"prompt_show", "prompt_unraw", "prompt_println", "prompt_match", "exited"}
        /\ (pc = "exited" => exitStatus # 0)
        /\ (pc = "exited" /\ err = "none" =>
                exitStatus = 1 /\ ~raw /\ ~cursorHidden /\ answer = "q")

\* C16 witness: ctrl-c at the prompt: exit 1, terminal restored, file kept
C16_Witness ==
    /\ AnsweredQuit
    /\ key = "ctrl-c"
    /\ pc = "exited"
    /\ exitStatus = 1
    /\ err = "none"
    /\ ~raw
    /\ ~cursorHidden
    /\ acquired
    /\ file = <<"x", "7">>

\* the keys of the two choice maps, as bound in the source
IncKeys == {"+", "=", "space"}
DecKeys == {"-", "_", "backspace"}
QuitKeys == {"q", "Q", "ctrl-c"}
YesKeys == {"y", "Y"}
NoKeys == {"n", "N"}

\* the keys the caller's map holds
MappedKeys(c) ==
    IF c = "prompt" THEN YesKeys \cup NoKeys \cup QuitKeys
    ELSE IncKeys \cup DecKeys \cup QuitKeys

\* the value the caller's map gives a key
Meaning(c, k) ==
    IF k \in QuitKeys THEN "q"
    ELSE IF c = "prompt" THEN (IF k \in YesKeys THEN "y" ELSE "n")
    ELSE (IF k \in IncKeys THEN "+" ELSE "-")

\* get_character_choice is rendering the prompt or waiting for an event
InReader == pc \in {"gcc_render", "gcc_read"}

\* a step that reads an event
ReadsEvent == pc = "gcc_read" /\ keys' = keys + 1

\* a step by which get_character_choice returns Ok
Returns == pc = "gcc_read" /\ pc' \in {"prompt_show", "main_match"}

\* C17: a step that reads a key that is not in the caller's map, or an
\* event that is no key, only goes back to rendering the prompt: the
\* reader does not return, no error is raised, and the count, the file,
\* the choice returned last, the terminal modes and the controller's
\* state are what they were.
C17_UnmappedIgnored ==
    [][(ReadsEvent /\ key' \notin MappedKeys(caller)) =>
          /\ pc' = "gcc_render"
          /\ UNCHANGED <<count, file, pos, synced, choice, caller, pcaller,
                         quit, tick, answer, exitStatus, err, ioFailed,
                         raw, cursorHidden>>]_vars

\* C17 witness: a resize event was read in the main loop, the prompt is rendered again
C17_Witness ==
    /\ caller = "main"
    /\ pc = "gcc_render"
    /\ key = "resize"
    /\ keys = 2
    /\ choice = "+"
    /\ count = Small(1)
    /\ file = <<"1">>

\* C18: the reader returns exactly when it reads a key of the caller's
\* map, with the value the map gives that key; it leaves its wait only by
\* reading an event or by an I/O error (there is no timeout); and while
\* events keep arriving it does not stay in its loop: it returns, fails,
\* or has read every event of the run.
C18_ReturnsOnMappedKey ==
    /\ [][Returns =>
            /\ keys' = keys + 1
            /\ key' \in MappedKeys(caller)
            /\ choice' = Meaning(caller, key')]_vars
    /\ [][(ReadsEvent /\ key' \in MappedKeys(caller)) =>
            /\ Returns
            /\ choice' = Meaning(caller, key')]_vars
    /\ [][(pc = "gcc_read" /\ pc' # "gcc_read") =>
            \/ keys' = keys + 1
            \/ pc' = "exited" /\ err' \in {"io", "panic"}]_vars
    /\ (InReader ~> (~InReader \/ keys = MaxKeys))

\* C18 witness: after an unmapped key, the second key read was '=' and the
\* reader returned '+'
C18_Witness ==
    /\ caller = "main"
    /\ pc = "main_match"
    /\ keys = 2
    /\ key = "="
    /\ choice = "+"

\* C19: in the main loop the reader returns only on the nine bound keys;
\* '+', '=' and space run one increment, '-', '_' and backspace one
\* decrement, 'q', 'Q' and ctrl-c quit; an operation starts only at the
\* dispatch of a key, and each dispatch follows the read of one event.
C19_KeyMapping ==
    /\ [](pc = "main_match" =>
            /\ key \in IncKeys \cup DecKeys \cup QuitKeys
            /\ choice = Meaning("main", key))
    /\ [][(pc = "main_match" /\ pc' # "main_match") =>
            \/ /\ key \in IncKeys
               /\ tick' # None /\ tick'.op = "+" /\ tick'.count = count
               /\ quit' = quit
            \/ /\ key \in DecKeys
               /\ tick' # None /\ tick'.op = "-" /\ tick'.count = count
               /\ quit' = quit
            \/ /\ key \in QuitKeys
               /\ quit'
               /\ tick' = tick /\ count' = count]_vars
    /\ [][pc # "main_match" =>
            /\ tick' = tick
            /\ quit' = quit
            /\ (count' # count => pc = "load")]_vars
    /\ [][(pc # "main_match" /\ pc' = "main_match") => keys' = keys + 1]_vars

\* C19 witness: backspace ran a decrement, which has returned
C19_Witness ==
    /\ Returned
    /\ pc = "gcc_render"
    /\ key = "backspace"
    /\ tick.op = "-"
    /\ tick.count = Small(10)
    /\ count = Small(9)

\* C20: whenever the main loop waits for a key event the terminal is in
\* raw mode and the cursor is hidden.
C20_RawWhileWaiting ==
    (caller = "main" /\ pc = "gcc_read") => (raw /\ cursorHidden)

\* C20 witness: the loop waits again after an underflow notice
C20_Witness ==
    /\ caller = "main"
    /\ pc = "gcc_read"
    /\ tick # None
    /\ tick.op = "-"
    /\ tick.count = I64_MIN
    /\ raw
    /\ cursorHidden

====
